---- MODULE Spec2Model ----
(***************************************************************************)
(* A model of scrapers/scraper.py of apertium/family-visualizations: the   *)
(* incremental history scraper.  One top-level run fetches the package     *)
(* catalog, writes <family>_pairData.json and <family>_transducers.json,   *)
(* and then, for every language of the family, merges the commit history   *)
(* of its dictionaries into <lang>.json.                                   *)
(*                                                                         *)
(* Repository and language names are sequences of one-character strings,   *)
(* so that the substring test, the regular expressions, rmPrefix and       *)
(* split("-") are computed as the code computes them.  The output of       *)
(* `git log` is a sequence of tokens (fields, "<>" separators, newlines).  *)
(***************************************************************************)
EXTENDS Integers, Sequences, FiniteSets, TLC

\* ------------------------------------------------------------- bounds
MaxRuns == 2        \* top-level invocations of the script in one behaviour
MaxPush == 2        \* commits pushed to the remotes in one behaviour

\* ------------------------------------------------------------ strings
LowerChars == {"a","b","c","d","e","f","g","h","i","j","k","l","m",
               "n","o","p","q","r","s","t","u","v","w","x","y","z"}
DigitChars == {"0","1","2","3","4","5","6","7","8","9"}
\* the characters matched by \w
WordChars == LowerChars \cup DigitChars \cup {"_"}

SetOf(s) == {s[i] : i \in 1..Len(s)}

\* s.startswith(p)
StartsWith(s, p) == Len(s) >= Len(p) /\ SubSeq(s, 1, Len(p)) = p

\* sub in s  (Python substring test on strings)
Contains(sub, s) ==
    \E i \in 1..(Len(s) - Len(sub) + 1) : SubSeq(s, i, i + Len(sub) - 1) = sub

\* s.split(sep) for a one-element separator: the pieces, empty ones included
RECURSIVE Split(_, _)
Split(s, sep) ==
    IF \A i \in 1..Len(s) : s[i] # sep
    THEN <<s>>
    ELSE LET k == CHOOSE i \in 1..Len(s) :
                      s[i] = sep /\ \A j \in 1..(i-1) : s[j] # sep
         IN  <<SubSeq(s, 1, k-1)>> \o Split(SubSeq(s, k+1, Len(s)), sep)

\* the length of the longest run of \w characters of s that starts at index i
RECURSIVE WordRun(_, _)
WordRun(s, i) ==
    IF i <= Len(s) /\ s[i] \in WordChars THEN 1 + WordRun(s, i+1) ELSE 0

Prefix == <<"a","p","e","r","t","i","u","m","-">>

\* re.match(r"apertium-\w+-\w+", name): a match at the start of the string
MatchPair(name) ==
    /\ StartsWith(name, Prefix)
    /\ LET k == WordRun(name, Len(Prefix) + 1)
       IN  /\ k >= 1
           /\ Len(name) >= Len(Prefix) + k + 2
           /\ name[Len(Prefix) + k + 1] = "-"
           /\ name[Len(Prefix) + k + 2] \in WordChars

\* re.match(r"apertium-\w+$", name): $ is the end, or just before a final newline
MatchMono(name) ==
    /\ StartsWith(name, Prefix)
    /\ LET k == WordRun(name, Len(Prefix) + 1)
       IN  /\ k >= 1
           /\ \/ Len(name) = Len(Prefix) + k
              \/ /\ Len(name) = Len(Prefix) + k + 1
                 /\ name[Len(name)] = "\n"

\* word[len("apertium-"):]  -- drops nine characters, whatever they are
rmPrefix(word) == SubSeq(word, Len(Prefix) + 1, Len(word))

\* "apertium-{}".format(x)
Repo(x) == Prefix \o x


\* ------------------------------------------------- names of the model
ita == <<"i","t","a">>
srd == <<"s","r","d">>
tat == <<"t","a","t">>
kir == <<"k","i","r">>
ium == <<"i","u","m">>
hmn == <<"h","m","n">>
mww == <<"m","w","w">>
nap == <<"n","a","p">>
Dash == <<"-">>
Pair(a, b) == a \o Dash \o b
ItaSrd == Pair(ita, srd)                    \* "ita-srd"
TatKir == Pair(tat, kir)                    \* "tat-kir"
TtKy == Pair(<<"t","t">>, <<"k","y">>)      \* "tt-ky"

\* ------------------------------------------------ the local checkouts
\* The dictionary files of a monolingual checkout are named by their tail,
\* the components after "apertium-<lang>.<lang>."; <<"dix","bak">> is
\* apertium-<lang>.<lang>.dix.bak.  glob() results are sorted by path.
SortedTails == << <<"dix">>, <<"dix","bak">>, <<"lexc">>, <<"metadix">>, <<"txt">> >>
Recognized == {"lexc", "dix", "metadix"}
\* file.suffix.replace(".", ""): the last component
Suffix(tail) == tail[Len(tail)]

\* fileExt, over the tails of the files the glob finds
fileExt(tails) ==
    LET hits == {i \in 1..Len(SortedTails) :
                    SortedTails[i] \in tails /\ Suffix(SortedTails[i]) \in Recognized}
    IN  IF hits = {} THEN "unknown"
        ELSE Suffix(SortedTails[CHOOSE i \in hits : \A j \in hits : i <= j])

\* ------------------------------------------------------- the git log
NL == "\n"
SEP == "<>"
ShaNames == <<"c1", "c2", "c3", "c4", "c5">>
DateNames == <<"d1", "d2", "d3", "d4", "d5">>

\* git log --format=%H<>%aN<>%aI<> --name-only: per commit the format line,
\* an empty line, the name of the file, newest commit first
RECURSIVE GitLogOutput(_)
GitLogOutput(log) ==
    IF log = <<>> THEN <<>>
    ELSE LET c == Head(log)
         IN  <<c.sha, SEP, c.author, SEP, c.date, SEP, NL, NL, c.path, NL>>
                 \o GitLogOutput(Tail(log))

\* .replace("\n\n", ""): left to right, without overlap
RECURSIVE ReplaceNLNL(_)
ReplaceNLNL(s) ==
    IF Len(s) < 2 THEN s
    ELSE IF s[1] = NL /\ s[2] = NL THEN ReplaceNLNL(SubSeq(s, 3, Len(s)))
    ELSE <<s[1]>> \o ReplaceNLNL(Tail(s))

\* (variant: the trailing empty line is kept)
PopNothing(lines) == lines

\* commits.pop(): the list without its last element
Pop(lines) == SubSeq(lines, 1, Len(lines) - 1)

\* the lines the merge loop iterates over
Commits(raw) == Pop(Split(ReplaceNLNL(raw), NL))

\* a field of a split line as a string: the tokens of the model are whole fields
Field(piece) == IF piece = <<>> THEN "" ELSE piece[1]

\* ------------------------------------------------ the stem counters
\* The content of a dictionary at a commit is [ok, stems]: whether the
\* counters can parse it, and the number of stems it holds.
NoContent == [ok |-> FALSE, stems |-> 0]

\* requests.get(raw.githubusercontent.com/apertium/<repo>/<sha>/<path>)
Fetch(log, sha, path) ==
    LET hits == {i \in 1..Len(log) : log[i].sha = sha /\ log[i].path = path}
    IN  IF hits = {} THEN NoContent
        ELSE LET c == log[CHOOSE i \in hits : TRUE]
             IN  [ok |-> c.ok, stems |-> c.stems]

\* lexccounter.countStems: the count, or SystemExit
countLexcStems(content) ==
    IF content.ok THEN [exit |-> FALSE, stems |-> content.stems]
    ELSE [exit |-> TRUE, stems |-> 0]

\* dixcounter.get_info: {"stems": n}, or -1
countDixStems(content) == IF content.ok THEN content.stems ELSE -1

\* ------------------------------------------------ the merge
\* `history` is the local variable of monoHistory / pairHistory:
\* [bound, h] - a name that was never assigned is unbound.
Unbound == [bound |-> FALSE, h |-> <<>>]
Bound(h) == [bound |-> TRUE, h |-> h]

\* a persisted file
Absent == [kind |-> "absent", val |-> <<>>]
Malformed == [kind |-> "malformed", val |-> <<>>]
Empty == [kind |-> "empty", val |-> <<>>]
Json(v) == [kind |-> "json", val |-> v]

\* the try block that loads the old history: json.load raises for a missing
\* or unparsable file; the for loop assigns `history` once per entry and
\* stops at the entry named `name`
LoadHistory(file, name, history) ==
    IF file.kind # "json" THEN Bound(<<>>)
    ELSE LET old == file.val
             hits == {i \in 1..Len(old) : old[i].name = name}
         IN  IF old = <<>> THEN history
             ELSE IF hits = {} THEN Bound(<<>>)
             ELSE Bound(old[CHOOSE i \in hits : \A j \in hits : i <= j].history)

\* (variant: no commit counts as seen)
SeenNever(sha, h) == FALSE

\* (variant: only the first record of the history is compared)
SeenFirst(sha, h) == h # <<>> /\ h[1].sha = sha

\* any(commitData["sha"] == cm["sha"] for cm in history)
Seen(sha, h) == \E i \in 1..Len(h) : h[i].sha = sha

\* (variant: a failed count is recorded instead of skipped)
CountStemsNoSkip(extension, content) ==
    [skip |-> FALSE, stems |-> IF content.ok THEN content.stems ELSE 0]

\* the stems of a fetched revision, or the failure the loop skips:
\* lexc goes to the lexc counter, everything else to the dix counter
CountStems(extension, content) ==
    IF extension = "lexc"
    THEN LET r == countLexcStems(content)
         IN  [skip |-> r.exit, stems |-> r.stems]
    ELSE LET r == countDixStems(content)
         IN  [skip |-> (r = -1), stems |-> r]

\* (variant: a new record goes to the front of the history)
MergeOnePrepend(line, h, extension, log) ==
    LET data == Split(line, SEP)
        sha == Field(data[1])
        c == CountStems(extension, Fetch(log, sha, Field(data[4])))
    IN  IF Seen(sha, h) \/ c.skip THEN h
        ELSE <<[sha |-> sha, author |-> Field(data[2]),
                date |-> Field(data[3]), stems |-> c.stems]>> \o h

\* one pass of the loop body: the history after the commit on `line`
MergeOne(line, h, extension, log) ==
    LET data == Split(line, SEP)
        sha == Field(data[1])
        content == Fetch(log, sha, Field(data[4]))
        c == CountStems(extension, content)
    IN  IF Seen(sha, h) THEN h
        ELSE IF c.skip THEN h
        ELSE Append(h, [sha |-> sha, author |-> Field(data[2]),
                        date |-> Field(data[3]), stems |-> c.stems])

\* for commit in commits: ...  The result is [ok, h]; ok is FALSE when the
\* loop raises: data[1], data[2] or (for an unseen commit) data[3] of a line
\* with too few "<>" (IndexError), or the first use of an unbound `history`
\* (UnboundLocalError)
RECURSIVE MergeLoop(_, _, _, _)
MergeLoop(lines, history, extension, log) ==
    IF lines = <<>> THEN [ok |-> history.bound, h |-> history.h]
    ELSE IF \/ Len(Split(Head(lines), SEP)) < 3
            \/ ~history.bound
            \/ /\ Len(Split(Head(lines), SEP)) < 4
               /\ ~Seen(Field(Split(Head(lines), SEP)[1]), history.h)
    THEN [ok |-> FALSE, h |-> <<>>]
    ELSE MergeLoop(Tail(lines),
                   Bound(MergeOne(Head(lines), history.h, extension, log)),
                   extension, log)


\* ------------------------------------------------ the repositories
\* prepRepo: clone or pull; the copy of .mailmap raises when the clone left
\* no directory.  [ok, cloned]: whether it returns, and the local checkouts
prepRepo(repo, remotes, cloned) ==
    [ok |-> repo \in remotes \/ repo \in cloned,
     cloned |-> IF repo \in remotes THEN cloned \cup {repo} ELSE cloned]

\* the bidix a pair repository really holds is apertium-<stem>.<stem>.dix
BidixStem(pairName) == IF pairName = TatKir THEN TtKy ELSE pairName

\* dixName: the name pairHistory asks git log for
DixName(pairName) == IF pairName # TatKir THEN pairName ELSE TtKy

\* ------------------------------------------------ monoHistory
\* [ok, val, cloned, walked]: whether it returns, the EntityHistory returned,
\* the checkouts, and the repositories git log was run in
monoHistory(language, file, tails, remotes, logs, cloned) ==
    LET dirName == Repo(language)
        history == LoadHistory(file, language, Unbound)
        prep == prepRepo(dirName, remotes, cloned)
        extension == fileExt(tails)
        merged == MergeLoop(Commits(GitLogOutput(logs[dirName])), history,
                            extension, logs[dirName])
        none == [name |-> language, history |-> <<>>]
    IN  IF ~prep.ok
        THEN [ok |-> FALSE, val |-> none, cloned |-> prep.cloned, walked |-> {}]
        ELSE IF extension = "unknown"   \* git log: no such path, check_output raises
        THEN [ok |-> FALSE, val |-> none, cloned |-> prep.cloned, walked |-> {dirName}]
        ELSE [ok |-> merged.ok,
              val |-> [name |-> language, history |-> merged.h],
              cloned |-> prep.cloned, walked |-> {dirName}]

\* ------------------------------------------------ pairHistory
\* the packages the loop does not skip at its first test
PairSelected(language, name) == Contains(language, name) /\ MatchPair(name)

\* (variant: without the test for the empty duplicate)
PairExcludedOnlyFamily(pairName, languages) ==
    ~(SetOf(Split(pairName, "-")) \subseteq SetOf(languages))

\* the second test: a code outside the family, or the empty duplicate
PairExcluded(pairName, languages) ==
    \/ ~(SetOf(Split(pairName, "-")) \subseteq SetOf(languages))
    \/ pairName = ItaSrd

\* the loop over packages from index i on; acc is [ok, val, cloned, walked]
\* so far and history the local variable left by the previous pass
RECURSIVE PairLoop(_, _, _, _, _, _, _, _, _)
PairLoop(i, acc, history, language, languages, pkgs, file, remotes, logs) ==
    IF i > Len(pkgs) \/ ~acc.ok THEN acc
    ELSE
    LET dirName == pkgs[i].name
        pairName == rmPrefix(dirName)
        prep == prepRepo(dirName, remotes, acc.cloned)
        found == DixName(pairName) = BidixStem(pairName)
        loaded == LoadHistory(file, pairName, history)
        merged == MergeLoop(Commits(GitLogOutput(logs[dirName])), loaded,
                            "dix", logs[dirName])
    IN  IF ~PairSelected(language, dirName) \/ PairExcluded(pairName, languages)
        THEN PairLoop(i + 1, acc, history, language, languages, pkgs, file,
                      remotes, logs)
        ELSE IF ~prep.ok
        THEN [acc EXCEPT !.ok = FALSE, !.cloned = prep.cloned]
        ELSE IF ~found \/ ~merged.ok
        THEN [acc EXCEPT !.ok = FALSE, !.cloned = prep.cloned,
                         !.walked = @ \cup {dirName}]
        ELSE PairLoop(i + 1,
                      [ok |-> TRUE,
                       val |-> Append(acc.val, [name |-> pairName, history |-> merged.h]),
                       cloned |-> prep.cloned,
                       walked |-> acc.walked \cup {dirName}],
                      Bound(merged.h), language, languages, pkgs, file,
                      remotes, logs)

pairHistory(language, languages, pkgs, file, remotes, logs, cloned) ==
    PairLoop(1, [ok |-> TRUE, val |-> <<>>, cloned |-> cloned, walked |-> {}],
             Unbound, language, languages, pkgs, file, remotes, logs)


\* ------------------------------------------------ monoData, pairData
\* The stats service answers the query for package number `bad` without
\* its "stats" field (0: it answers them all): the KeyError the code turns
\* into "The stats-service seems to be updating".

\* extension -> the file type asked of the stats service
FileType(extension) ==
    IF extension = "lexc" THEN "lexc"
    ELSE IF extension = "dix" THEN "monodix"
    ELSE "metamonodix"

MonoSelected(name, languages) ==
    MatchMono(name) /\ rmPrefix(name) \in SetOf(languages)

\* acc is [ok, data, cloned, queries]
RECURSIVE MonoDataLoop(_, _, _, _, _, _, _)
MonoDataLoop(i, acc, pkgs, languages, tails, remotes, bad) ==
    IF i > Len(pkgs) \/ ~acc.ok THEN acc
    ELSE
    LET dirName == pkgs[i].name
        language == rmPrefix(dirName)
        prep == prepRepo(dirName, remotes, acc.cloned)
        extension == fileExt(tails[language])
        query == [repo |-> dirName, type |-> FileType(extension)]
    IN  IF ~MonoSelected(dirName, languages)
        THEN MonoDataLoop(i + 1, acc, pkgs, languages, tails, remotes, bad)
        ELSE IF ~prep.ok
        THEN [acc EXCEPT !.ok = FALSE, !.cloned = prep.cloned]
        ELSE IF bad = i \/ extension = "unknown"
        \* the KeyError of the query, or git log on a path that does not exist
        THEN [acc EXCEPT !.ok = FALSE, !.cloned = prep.cloned,
                         !.queries = @ \cup {query}]
        ELSE MonoDataLoop(i + 1,
                 [ok |-> TRUE,
                  data |-> Append(acc.data, [lang |-> language, location |-> dirName]),
                  cloned |-> prep.cloned,
                  queries |-> acc.queries \cup {query}],
                 pkgs, languages, tails, remotes, bad)

monoData(pkgs, languages, tails, remotes, cloned, bad) ==
    MonoDataLoop(1, [ok |-> TRUE, data |-> <<>>, cloned |-> cloned, queries |-> {}],
                 pkgs, languages, tails, remotes, bad)

\* acc is [ok, data, queries]
RECURSIVE PairDataLoop(_, _, _, _, _)
PairDataLoop(i, acc, pkgs, languages, bad) ==
    IF i > Len(pkgs) \/ ~acc.ok THEN acc
    ELSE
    LET pairName == rmPrefix(pkgs[i].name)
        pairSet == SetOf(Split(pairName, "-"))
        query == [repo |-> Repo(pairName), type |-> "bidix"]
    IN  IF ~MatchPair(pkgs[i].name) \/ PairExcluded(pairName, languages)
        THEN PairDataLoop(i + 1, acc, pkgs, languages, bad)
        ELSE IF bad = i
        THEN [acc EXCEPT !.ok = FALSE, !.queries = @ \cup {query}]
        ELSE PairDataLoop(i + 1,
                 [ok |-> TRUE,
                  data |-> Append(acc.data, [langs |-> pairSet]),
                  queries |-> acc.queries \cup {query}],
                 pkgs, languages, bad)

pairData(pkgs, languages, bad) ==
    PairDataLoop(1, [ok |-> TRUE, data |-> <<>>, queries |-> {}],
                 pkgs, languages, bad)


\* ------------------------------------------------ the worlds of the model
Pk(name) == [name |-> name]

\* families.json entry, package catalog, the repositories that exist on
\* GitHub, the dictionary files in each monolingual checkout, and the
\* repositories whose dictionary is being worked on
Romance ==
    [langs |-> <<ita, srd>>,
     packages |-> <<Pk(Repo(ita)), Pk(Repo(srd)), Pk(Repo(ItaSrd)),
                    Pk(Repo(Pair(srd, ita)))>>,
     remotes |-> {Repo(ita), Repo(srd), Repo(ItaSrd), Repo(Pair(srd, ita))},
     tails |-> (ita :> {<<"dix">>, <<"metadix">>}) @@ (srd :> {<<"lexc">>, <<"txt">>}),
     active |-> {Repo(ita), Repo(Pair(srd, ita))}]
Turkic ==
    [langs |-> <<tat, kir>>,
     packages |-> <<Pk(Repo(TatKir)), Pk(Repo(tat)), Pk(Repo(kir))>>,
     remotes |-> {Repo(tat), Repo(kir), Repo(TatKir)},
     tails |-> (tat :> {<<"lexc">>}) @@ (kir :> {<<"metadix">>}),
     active |-> {Repo(tat), Repo(TatKir)}]
HmongMien ==
    [langs |-> <<ium, hmn, mww>>,
     packages |-> <<Pk(Repo(Pair(hmn, mww)))>>,
     remotes |-> {Repo(ium), Repo(hmn), Repo(mww), Repo(Pair(hmn, mww))},
     tails |-> (ium :> {<<"dix", "bak">>, <<"metadix">>}) @@ (hmn :> {<<"dix">>})
                  @@ (mww :> {<<"txt">>}),
     active |-> {Repo(ium), Repo(Pair(hmn, mww))}]
Unreleased ==
    [langs |-> <<ita, nap>>,
     packages |-> <<Pk(Repo(ita))>>,
     remotes |-> {Repo(ita)},
     tails |-> (ita :> {<<"lexc">>}) @@ (nap :> {}),
     active |-> {Repo(ita)}]
Undetected ==
    [langs |-> <<tat, kir>>,
     packages |-> <<Pk(Repo(tat)), Pk(Repo(kir))>>,
     remotes |-> {Repo(tat), Repo(kir)},
     tails |-> (tat :> {<<"dix">>}) @@ (kir :> {<<"txt">>}),
     active |-> {Repo(tat)}]
Worlds == {Romance, Turkic, HmongMien, Unreleased, Undetected}

\* a record of an earlier scrape: commit c1 counted by an older counter
OldRecord == [sha |-> ShaNames[1], author |-> "A", date |-> DateNames[1], stems |-> 9]

\* <lang>.json as an earlier complete run left it
IsPairOf(language, languages, p) ==
    /\ MatchPair(p.name)
    /\ language \in SetOf(Split(rmPrefix(p.name), "-"))
    /\ SetOf(Split(rmPrefix(p.name), "-")) \subseteq SetOf(languages)
    /\ rmPrefix(p.name) # ItaSrd
RECURSIVE OldPairs(_, _, _)
OldPairs(language, languages, pkgs) ==
    IF pkgs = <<>> THEN <<>>
    ELSE (IF IsPairOf(language, languages, Head(pkgs))
          THEN <<[name |-> rmPrefix(Head(pkgs).name), history |-> <<OldRecord>>]>>
          ELSE <<>>) \o OldPairs(language, languages, Tail(pkgs))
OldFile(language, languages, pkgs) ==
    Json(<<[name |-> language, history |-> <<OldRecord>>]>>
            \o OldPairs(language, languages, pkgs))

\* ------------------------------------------------ state
VARIABLES
    langs,        \* families[family]
    packages,     \* the catalog of the stats service
    remotes,      \* the repositories that exist on GitHub
    tails,        \* per language, the dictionary files of its repository
    active,       \* the repositories that receive commits
    remote,       \* per repository, the commits of its dictionary, newest first
    pushes,       \* commits pushed so far
    files,        \* per language, json/<lang>.json
    pairsFile,    \* json/<family>_pairData.json
    langsFile,    \* json/<family>_transducers.json
    cloned,       \* the checkouts under git-repos/
    pc,           \* where the script is: idle, pair, mono, hist, done, aborted
    run,          \* invocations so far
    idx,          \* the index in langs of the language the loop is at
    queries,      \* the stats-service queries of the current invocation
    walked,       \* the repositories git log ran in, current invocation
    last,         \* the last pass of the per-language loop: inputs and results
    fresh,        \* per language: whether a run wrote <lang>.json, and the
                  \* repositories pushed to since it was last written
    before        \* the persisted files as the current invocation found them

vars == <<langs, packages, remotes, tails, active, remote, pushes, files, pairsFile,
          langsFile, cloned, pc, run, idx, queries, walked, last, fresh, before>>
world == <<langs, packages, remotes, tails, active>>

\* json/<lang>.json before the first run: no file, a file that is not JSON,
\* a file holding [], or the file of an earlier scrape, the same for every
\* language; or [] for the last language only
InitFiles(w) ==
    {[l \in SetOf(w.langs) |-> f] : f \in {Absent, Malformed, Json(<<>>)}}
      \cup {[l \in SetOf(w.langs) |-> OldFile(l, w.langs, w.packages)]}
      \cup {[l \in SetOf(w.langs) |->
                IF l = w.langs[Len(w.langs)] THEN Json(<<>>) ELSE Absent]}

NoPass == [called |-> FALSE, lang |-> <<>>, old |-> Absent, logs |-> <<>>,
           rewrite |-> FALSE, pushed |-> {},
           mono |-> [ok |-> FALSE, val |-> [name |-> <<>>, history |-> <<>>]],
           pairs |-> [ok |-> FALSE, val |-> <<>>]]

Init ==
    \E w \in Worlds :
        /\ langs = w.langs
        /\ packages = w.packages
        /\ remotes = w.remotes
        /\ tails = w.tails
        /\ active = w.active
        /\ remote = [r \in w.remotes |-> <<>>]
        /\ pushes = 0
        /\ files \in InitFiles(w)
        /\ pairsFile = Absent
        /\ langsFile = Absent
        /\ cloned = {}
        /\ pc = "idle"
        /\ run = 0
        /\ idx = 1
        /\ queries = {}
        /\ walked = {}
        /\ last = [NoPass EXCEPT !.logs = [r \in w.remotes |-> <<>>]]
        /\ fresh = [l \in SetOf(w.langs) |-> [written |-> FALSE, pushed |-> {}]]
        /\ before = [files |-> files, pairs |-> Absent, langs |-> Absent]


\* ------------------------------------------------ the remotes
\* somebody pushes a commit that changes the dictionary of repository r;
\* its content is one the counters can parse, or one they cannot
NewCommit(log, ok) ==
    [sha |-> ShaNames[Len(log) + 1], author |-> "A",
     date |-> DateNames[Len(log) + 1], path |-> "dict",
     ok |-> ok, stems |-> Len(log) + 1]

Push(r) ==
    /\ pushes < MaxPush
    /\ Len(remote[r]) < Len(ShaNames)
    /\ \E ok \in BOOLEAN :
          remote' = [remote EXCEPT ![r] = <<NewCommit(remote[r], ok)>> \o @]
    /\ pushes' = pushes + 1
    /\ fresh' = [l \in DOMAIN fresh |-> [fresh[l] EXCEPT !.pushed = @ \cup {r}]]
    /\ UNCHANGED <<world, files, pairsFile, langsFile, cloned, pc, run,
                   idx, queries, walked, last, before>>

\* ------------------------------------------------ __main__
\* argument parsing up to the fetch of the package catalog
Start ==
    /\ pc \in {"idle", "done", "aborted"}
    /\ run < MaxRuns
    /\ run' = run + 1
    /\ pc' = "pair"
    /\ idx' = 1
    /\ queries' = {}
    /\ walked' = {}
    /\ last' = [NoPass EXCEPT !.logs = [r \in remotes |-> <<>>]]
    /\ before' = [files |-> files, pairs |-> pairsFile, langs |-> langsFile]
    /\ UNCHANGED <<world, remote, pushes, files, pairsFile, langsFile, cloned,
                   fresh>>

\* open(<family>_pairData.json, "w+") and json.dump(pairData(...), pairsFile)
PairDataStep ==
    /\ pc = "pair"
    /\ \E bad \in 0..Len(packages) :
          LET r == pairData(packages, langs, bad)
          IN  /\ pairsFile' = IF r.ok THEN Json(r.data) ELSE Empty
              /\ queries' = queries \cup r.queries
              /\ pc' = IF r.ok THEN "mono" ELSE "aborted"
    /\ UNCHANGED <<world, remote, pushes, files, langsFile, cloned, run,
                   idx, walked, last, fresh, before>>

\* open(<family>_transducers.json, "w+") and json.dump(monoData(...), langsFile)
MonoDataStep ==
    /\ pc = "mono"
    /\ \E bad \in 0..Len(packages) :
          LET r == monoData(packages, langs, tails, remotes, cloned, bad)
          IN  /\ langsFile' = IF r.ok THEN Json(r.data) ELSE Empty
              /\ queries' = queries \cup r.queries
              /\ cloned' = r.cloned
              /\ pc' = IF r.ok THEN "hist" ELSE "aborted"
    /\ \E shallow \in BOOLEAN :      \* args.shallow: the loop is skipped
          idx' = IF shallow THEN Len(langs) + 1 ELSE 1
    /\ UNCHANGED <<world, remote, pushes, files, pairsFile, run,
                   walked, last, fresh, before>>

\* one pass of `for lang in langs`: monoHistory, pairHistory, and the dump
HistoryStep ==
    /\ pc = "hist"
    /\ idx <= Len(langs)
    /\ LET lang == langs[idx]
           m == monoHistory(lang, files[lang], tails[lang], remotes, remote, cloned)
           p == IF m.ok
                THEN pairHistory(lang, langs, packages, files[lang], remotes,
                                 remote, m.cloned)
                ELSE [ok |-> FALSE, val |-> <<>>, cloned |-> m.cloned, walked |-> {}]
       IN  /\ last' = [called |-> TRUE, lang |-> lang, old |-> files[lang],
                       logs |-> remote,
                       rewrite |-> fresh[lang].written,
                       pushed |-> fresh[lang].pushed,
                       mono |-> [ok |-> m.ok, val |-> m.val],
                       pairs |-> [ok |-> p.ok, val |-> p.val]]
           /\ cloned' = p.cloned
           /\ walked' = walked \cup m.walked \cup p.walked
           /\ IF m.ok /\ p.ok
              THEN /\ files' = [files EXCEPT ![lang] = Json(<<m.val>> \o p.val)]
                   /\ fresh' = [fresh EXCEPT ![lang] = [written |-> TRUE, pushed |-> {}]]
                   /\ idx' = idx + 1
                   /\ pc' = "hist"
              ELSE /\ pc' = "aborted"
                   /\ UNCHANGED <<files, fresh, idx>>
    /\ UNCHANGED <<world, remote, pushes, pairsFile, langsFile, run, queries,
                   before>>

\* print("Succesfully scraped data ...")
Finish ==
    /\ pc = "hist"
    /\ idx > Len(langs)
    /\ pc' = "done"
    /\ UNCHANGED <<world, remote, pushes, files, pairsFile, langsFile, cloned,
                   run, idx, queries, walked, last, fresh, before>>

Next ==
    \/ Start
    \/ PairDataStep
    \/ MonoDataStep
    \/ HistoryStep
    \/ Finish
    \/ \E r \in active : Push(r)

Spec == Init /\ [][Next]_vars


\* ================================================= properties
\* What the properties say of the last pass of the per-language loop is
\* stated from its inputs (last.old, last.logs) and what it returned.

Shas(h) == {h[i].sha : i \in 1..Len(h)}

\* the entities the last pass returned: monoHistory's, then pairHistory's
Returned ==
    (IF last.mono.ok THEN {last.mono.val} ELSE {})
        \cup (IF last.pairs.ok THEN SetOf(last.pairs.val) ELSE {})

\* the history under `name` in a persisted file; none if there is no such entry
HasEntry(file, name) ==
    file.kind = "json" /\ \E i \in 1..Len(file.val) : file.val[i].name = name
Existing(file, name) ==
    IF HasEntry(file, name)
    THEN file.val[CHOOSE i \in 1..Len(file.val) :
                     /\ file.val[i].name = name
                     /\ \A j \in 1..(i-1) : file.val[j].name # name].history
    ELSE <<>>

\* the commit list the walker gave for an entity, newest first
LogOf(name) == last.logs[Repo(name)]

\* the records a merge has to add: the commits not in ex that can be
\* counted, newest first
RECURSIVE NewRecords(_, _)
NewRecords(log, ex) ==
    IF log = <<>> THEN <<>>
    ELSE (IF Head(log).ok /\ Head(log).sha \notin Shas(ex)
          THEN <<[sha |-> Head(log).sha, author |-> Head(log).author,
                  date |-> Head(log).date, stems |-> Head(log).stems]>>
          ELSE <<>>) \o NewRecords(Tail(log), ex)

SeenIn(log, ex) == {i \in 1..Len(log) : log[i].sha \in Shas(ex)}
FailedIn(log, ex) == {i \in 1..Len(log) : ~log[i].ok /\ log[i].sha \notin Shas(ex)}

\* nothing but a failed count can stop monoHistory in the last pass
MonoCanRun ==
    /\ last.old # Json(<<>>)
    /\ Repo(last.lang) \in remotes
    /\ fileExt(tails[last.lang]) # "unknown"

\* the repositories pairHistory walks for a language
PairRepos(language) ==
    {packages[i].name : i \in {j \in 1..Len(packages) :
        /\ PairSelected(language, packages[j].name)
        /\ ~PairExcluded(rmPrefix(packages[j].name), langs)}}
Tracked(language) == {Repo(language)} \cup PairRepos(language)

\* C1: idempotence across runs - when <lang>.json was written by an earlier
\* run and no tracked repository received a commit since, the pass that
\* completes writes the file it found: same entities, records, order, stems.
\* (The witness: such a second pass, over a history with a record and a
\* commit whose count failed in the first run and fails again.)
C1_Idempotent ==
    (/\ last.called /\ last.mono.ok /\ last.pairs.ok
     /\ last.rewrite
     /\ last.pushed \cap Tracked(last.lang) = {})
        => files[last.lang] = last.old

C1_Witness ==
    /\ last.called /\ last.mono.ok /\ last.pairs.ok
    /\ last.rewrite
    /\ last.pushed \cap Tracked(last.lang) = {}
    /\ last.mono.val.history # <<>>
    /\ FailedIn(LogOf(last.lang), Existing(last.old, last.lang)) # {}

C3_SkipOnFailure ==
    last.called =>
        /\ MonoCanRun => last.mono.ok
        /\ (last.mono.ok /\ PairRepos(last.lang) \subseteq remotes) => last.pairs.ok
        /\ \A e \in Returned :
              LET ex == Existing(last.old, e.name)
                  log == LogOf(e.name)
              IN  \A i \in 1..Len(log) :
                     log[i].sha \notin Shas(ex) =>
                        IF log[i].ok
                        THEN \E k \in 1..Len(e.history) :
                                /\ e.history[k].sha = log[i].sha
                                /\ e.history[k].stems = log[i].stems
                        ELSE log[i].sha \notin Shas(e.history)

\* a lexc walk in which the newest commit fails and an older one is recorded
C3_Witness ==
    /\ last.called /\ last.mono.ok
    /\ fileExt(tails[last.lang]) = "lexc"
    /\ LET log == LogOf(last.lang)
       IN  /\ Len(log) >= 2
           /\ ~log[1].ok /\ log[1].sha \notin Shas(Existing(last.old, last.lang))
           /\ log[2].ok /\ log[2].sha \notin Shas(Existing(last.old, last.lang))
           /\ log[2].sha \in Shas(last.mono.val.history)

\* C4: the returned history is the loaded history, unchanged, followed by
\* the newly counted records in the walker's order (newest first).
C4_AppendOnly ==
    \A e \in Returned :
        LET ex == Existing(last.old, e.name)
        IN  e.history = ex \o NewRecords(LogOf(e.name), ex)

\* an old record whose commit would be counted differently today is kept,
\* and a new record is appended behind it
C4_Witness ==
    /\ last.called /\ last.mono.ok
    /\ LET ex == Existing(last.old, last.lang)
           log == LogOf(last.lang)
       IN  /\ ex # <<>>
           /\ Len(last.mono.val.history) > Len(ex)
           /\ \E i \in 1..Len(log) : \E k \in 1..Len(ex) :
                 /\ log[i].sha = ex[k].sha
                 /\ log[i].ok /\ log[i].stems # ex[k].stems

\* C6: sentinel discard - the records added are the real commits minus the
\* seen and the failed ones, none is made for the trailing empty line, and a
\* file without commits leaves the history as it was, without an error.
C6_SentinelDiscard ==
    last.called =>
        /\ (MonoCanRun /\ LogOf(last.lang) = <<>>) => last.mono.ok
        /\ \A e \in Returned :
              LET ex == Existing(last.old, e.name)
                  log == LogOf(e.name)
                  raw == Split(ReplaceNLNL(GitLogOutput(log)), NL)
              IN  /\ raw[Len(raw)] = <<>>
                  /\ Len(e.history) - Len(ex) =
                        Len(log) - Cardinality(SeenIn(log, ex))
                                 - Cardinality(FailedIn(log, ex))
                  /\ "" \notin Shas(e.history)
                  /\ log = <<>> => e.history = ex

\* one entity without commits, and one with a seen, a failed or a new commit
C6_Witness ==
    /\ last.called /\ last.mono.ok /\ last.pairs.ok
    /\ \E e \in Returned : LogOf(e.name) = <<>>
    /\ \E e \in Returned :
          LET ex == Existing(last.old, e.name)
              log == LogOf(e.name)
          IN  /\ Len(log) >= 2
              /\ SeenIn(log, ex) # {}
              /\ Len(e.history) > Len(ex)


\* C5 (as claimed): with no file, a malformed file, or a file without an
\* entry for the language ([] included), monoHistory starts from the empty
\* history and does not crash.
C5_DefaultsToEmpty ==
    (/\ last.called
     /\ ~HasEntry(last.old, last.lang)
     /\ Repo(last.lang) \in remotes
     /\ fileExt(tails[last.lang]) # "unknown")
        => /\ last.mono.ok
           /\ last.mono.val.history = NewRecords(LogOf(last.lang), <<>>)

\* C7: with ita and srd in the family, ita-srd is never cloned or pulled,
\* never walked, never asked of the stats service, never an entity of a
\* returned or written history, and pairData emits one entry per query.
NamesOf(entities) == {entities[i].name : i \in 1..Len(entities)}
C7_PairExclusion ==
    {ita, srd} \subseteq SetOf(langs) =>
        /\ Repo(ItaSrd) \notin cloned
        /\ Repo(ItaSrd) \notin walked
        /\ \A q \in queries : q.repo # Repo(ItaSrd)
        /\ ItaSrd \notin NamesOf(last.pairs.val)
        /\ \A l \in DOMAIN files : ItaSrd \notin NamesOf(files[l].val)
        /\ (pairsFile.kind = "json" /\ pc \in {"mono", "hist", "done"}) =>
              Len(pairsFile.val) = Cardinality({q \in queries : q.type = "bidix"})

\* a completed run with apertium-ita-srd in the catalog: the pass of srd
\* returned the history of srd-ita alone, and pairData its entry alone
C7_Witness ==
    /\ {ita, srd} \subseteq SetOf(langs)
    /\ \E i \in 1..Len(packages) : packages[i].name = Repo(ItaSrd)
    /\ last.called /\ last.lang = srd /\ last.pairs.ok
    /\ NamesOf(last.pairs.val) = {Pair(srd, ita)}
    /\ pairsFile = Json(<<[langs |-> {ita, srd}]>>)
    /\ pc = "done"

\* C8 (as claimed): no stats query is made, under any file type, for a
\* monolingual dictionary whose extension is "unknown", and the run goes on.
C8_UnknownSkipped ==
    /\ \A q \in queries :
          q.type # "bidix" => fileExt(tails[rmPrefix(q.repo)]) # "unknown"
    /\ (last.called /\ Repo(last.lang) \in remotes /\ last.old # Json(<<>>))
          => last.mono.ok

\* C9 (as claimed): a run that ends in a fatal error leaves every persisted
\* file as it found it.
C9_AbortIsAtomic ==
    pc = "aborted" =>
        /\ files = before.files
        /\ pairsFile = before.pairs
        /\ langsFile = before.langs

\* C10 (as claimed): every entity pairHistory returns for a language is
\* named by two codes of the family, one of them the language.
C10_PairsOfTheLanguage ==
    \A i \in 1..Len(last.pairs.val) :
        LET codes == Split(last.pairs.val[i].name, "-")
        IN  /\ Len(codes) = 2
            /\ SetOf(codes) \subseteq SetOf(langs)
            /\ last.lang \in SetOf(codes)

====
